---- MODULE Spec2Model ----
(***************************************************************************)
(* Model of the QR-with-icon pipeline of src/main.rs:                      *)
(*   generate_qr_with_icon  (encode, rasterize, load icon, overlay, save)  *)
(*   load_and_resize_icon   (exists check, decode, aspect-preserving fit)  *)
(*   overlay_icon_on_qr     (offsets, white patch, overlay)                *)
(*                                                                         *)
(* An image is a record [width, height, px]; px maps <<x, y>> to a colour. *)
(* A canvas colour is an RGB triple; an icon pixel is [rgb, a] (the icon   *)
(* is a DynamicImage and may carry an alpha channel).                      *)
(*                                                                         *)
(* Four specifications share the actions:                                  *)
(*   SpecRaster    lines 34-65 on small matrices, the target size drawn    *)
(*                 from 1..MaxTarget, pixel-exact;                         *)
(*   SpecIcon      load_and_resize_icon on small sources and bounds;       *)
(*   SpecOverlay   overlay_icon_on_qr on small canvases and icons,         *)
(*                 pixel-exact, including icons larger than the canvas;    *)
(*   SpecPipeline  the whole run with the program's own numbers (400,      *)
(*                 widths 21..177); pixel buffers of that size are not     *)
(*                 enumerated, detail = "dims" keeps their dimensions.     *)
(***************************************************************************)
EXTENDS Integers, Sequences, FiniteSets, TLC

VARIABLES
    pc,             \* position in generate_qr_with_icon
    detail,         \* "pixels": buffers carry their pixels; "dims": dimensions only
    qr_size,        \* line 34
    qr_width,       \* line 35, code.width()
    code,           \* the module matrix, <<x, y>> |-> TRUE iff dark
    module_size,    \* line 36
    actual_qr_size, \* line 37
    qr_image,       \* line 39, the canvas
    icon_size,      \* line 68 / parameter size of load_and_resize_icon
    icon_file,      \* what icon_path names: [state, width, height, kind]
    icon,           \* line 69, the prepared icon
    x_offset,       \* line 103
    y_offset,       \* line 104
    background_size,\* line 107
    bg_x,           \* line 108
    bg_y,           \* line 109
    bg_image,       \* the canvas after lines 112-120, before the overlay
    final_image,    \* line 72
    result,         \* "running", "Ok", "Err", "panic"
    error,          \* which step returned the Err
    output_file     \* "absent", "written", "partial"

vars == <<pc, detail, qr_size, qr_width, code, module_size, actual_qr_size,
          qr_image, icon_size, icon_file, icon, x_offset, y_offset,
          background_size, bg_x, bg_y, bg_image, final_image, result, error,
          output_file>>

----------------------------------------------------------------------------
(* Bounds of the scaled specifications. *)
MaxTarget == 9
MaxWidth == 2
MaxCanvas == 17
MaxIconWidth == 2
MaxIconHeight == 7
MaxSource == 6
MaxIconSize == 5

(* Program constants. *)
QR_SIZE == 400
ICON_DIVISOR == 5
PADDING == 5
MIN_QR_WIDTH == 21
MAX_QR_WIDTH == 177
U32_HALF_MAX == 2147483647

White == <<255, 255, 255>>
Black == <<0, 0, 0>>

Coords(w, h) == (0 .. w - 1) \X (0 .. h - 1)

Max(a, b) == IF a >= b THEN a ELSE b

NoImage == [width |-> 0, height |-> 0, px |-> <<>>]

NoIcon == [width |-> 0, height |-> 0, kind |-> "none", px |-> <<>>]

NoFile == [state |-> "missing", width |-> 0, height |-> 0, kind |-> "none"]

----------------------------------------------------------------------------
(* Lines 34-65: the rasterizer. *)

\* Mutant: the module size rounded up instead of down.
ModuleSizeCeil(size, width) == (size + width - 1) \div width

ModuleSize(size, width) == size \div width

ActualQrSize(msize, width) == msize * width

\* Mutant: blocks laid out with a stride of msize + 1.
DrawModulesStride(matrix, width, msize, actual) ==
    [p \in Coords(actual, actual) |->
        IF \E y \in 0 .. width - 1, x \in 0 .. width - 1 :
              /\ matrix[<<x, y>>]
              /\ \E dy \in 0 .. msize - 1, dx \in 0 .. msize - 1 :
                    /\ p[1] = x * (msize + 1) + dx
                    /\ p[2] = y * (msize + 1) + dy
                    /\ p[1] < actual /\ p[2] < actual
        THEN Black ELSE White]

\* Lines 42-65: white everywhere, then every dark module's block in black,
\* each put_pixel guarded by px < actual_qr_size && py < actual_qr_size.
DrawModules(matrix, width, msize, actual) ==
    [p \in Coords(actual, actual) |->
        IF \E y \in 0 .. width - 1, x \in 0 .. width - 1 :
              /\ matrix[<<x, y>>]
              /\ \E dy \in 0 .. msize - 1, dx \in 0 .. msize - 1 :
                    /\ p[1] = x * msize + dx
                    /\ p[2] = y * msize + dy
                    /\ p[1] < actual /\ p[2] < actual
        THEN Black ELSE White]

\* Line 68.
IconSize(actual) == actual \div ICON_DIVISOR

----------------------------------------------------------------------------
(* Lines 80-94: load_and_resize_icon. *)

\* Rounding of a non-negative quotient to the nearest integer, halves up
\* (f64::round on a non-negative value).
RoundDiv(n, d) == (2 * n + d) \div (2 * d)

\* Mutant: the larger ratio scales (resize_to_fill's choice).
ResizeDimensionsFill(width, height, nwidth, nheight) ==
    LET use_w == nwidth * height >= nheight * width
        num == IF use_w THEN nwidth ELSE nheight
        den == IF use_w THEN width ELSE height
    IN  <<Max(RoundDiv(width * num, den), 1), Max(RoundDiv(height * num, den), 1)>>

\* Line 91, icon.resize(size, size, Lanczos3): the aspect-preserving fit of
\* the image crate (resize_dimensions with fill = false): the smaller of the
\* two ratios nwidth/width and nheight/height scales both sides, each
\* rounded and at least 1.
ResizeDimensions(width, height, nwidth, nheight) ==
    LET use_w == nwidth * height <= nheight * width
        num == IF use_w THEN nwidth ELSE nheight
        den == IF use_w THEN width ELSE height
    IN  <<Max(RoundDiv(width * num, den), 1), Max(RoundDiv(height * num, den), 1)>>

\* The resampled content is not computed: a "coded" icon is opaque and each
\* pixel carries its own coordinates, so that a misplaced pixel is told
\* apart; a "black" icon is opaque black; a "clear" icon is fully
\* transparent (alpha 0).
IconPixels(kind, w, h) ==
    [p \in Coords(w, h) |->
        IF kind = "clear" THEN [rgb |-> Black, a |-> 0]
        ELSE IF kind = "black" THEN [rgb |-> Black, a |-> 255]
        ELSE [rgb |-> <<p[1] + 1, p[2] + 1, 128>>, a |-> 255]]

MakeIcon(kind, w, h, d) ==
    [width |-> w, height |-> h, kind |-> kind,
     px |-> IF d = "pixels" THEN IconPixels(kind, w, h) ELSE <<>>]

----------------------------------------------------------------------------
(* Lines 96-129: overlay_icon_on_qr. *)

\* Mutant: the half rounded up.
CenterOffsetCeil(outer, inner) == (outer - inner + 1) \div 2

\* Lines 103-104, (outer - inner) / 2 on u32. With inner > outer the
\* subtraction overflows: a build with overflow checks panics (OverlayPanic
\* below), a build without them wraps modulo 2^32, which is this value:
\* (2^32 - d) / 2 = 2^31 - ceil(d / 2).
CenterOffset(outer, inner) ==
    IF outer >= inner
    THEN (outer - inner) \div 2
    ELSE (U32_HALF_MAX - ((inner - outer + 1) \div 2)) + 1

\* Line 107.
BackgroundSize(icon_width) == icon_width + 2 * PADDING

\* Lines 108-109.
BgAnchor(offset) == IF offset >= PADDING THEN offset - PADDING ELSE 0

\* Mutant: inclusive loop ranges, 0 ..= size.
PaintBackgroundInclusive(img, bx, by, size) ==
    [img EXCEPT !.px =
        [p \in DOMAIN img.px |->
            IF /\ p[1] - bx \in 0 .. size
               /\ p[2] - by \in 0 .. size
               /\ p[1] < img.width /\ p[2] < img.height
            THEN White ELSE img.px[p]]]

\* Lines 112-120: put_pixel(bg + x, bg + y, white) for x, y in
\* 0 .. size - 1, guarded by px < qr_width && py < qr_height.
PaintBackground(img, bx, by, size) ==
    [img EXCEPT !.px =
        [p \in DOMAIN img.px |->
            IF /\ p[1] - bx \in 0 .. size - 1
               /\ p[2] - by \in 0 .. size - 1
               /\ p[1] < img.width /\ p[2] < img.height
            THEN White ELSE img.px[p]]]

\* Pixel::blend of an Rgba source over an opaque destination, for the two
\* alpha values the icons of this model carry.
Blend(bg, fg) == IF fg.a = 255 THEN fg.rgb ELSE bg

\* Line 126, imageops::overlay(&mut base, &icon, x, y): the icon's pixels
\* blended onto the base at (x, y), clipped to the base.
Overlay(base, top, x, y) ==
    [base EXCEPT !.px =
        [p \in DOMAIN base.px |->
            IF /\ p[1] - x \in 0 .. top.width - 1
               /\ p[2] - y \in 0 .. top.height - 1
            THEN Blend(base.px[p], top.px[<<p[1] - x, p[2] - y>>])
            ELSE base.px[p]]]

----------------------------------------------------------------------------
(* The steps of generate_qr_with_icon. *)

\* A `?` that takes its Err branch: the function returns the error.
Fail(why) ==
    /\ result' = "Err"
    /\ error' = why
    /\ pc' = "done"

\* Line 31, QrCode::new(url)? succeeds; the matrix itself is not enumerated
\* at this size.
Encode ==
    /\ pc = "encode"
    /\ \E w \in MIN_QR_WIDTH .. MAX_QR_WIDTH : qr_width' = w
    /\ pc' = "rasterize"
    /\ UNCHANGED <<detail, qr_size, code, module_size, actual_qr_size, qr_image,
                   icon_size, icon_file, icon, x_offset, y_offset,
                   background_size, bg_x, bg_y, bg_image, final_image, result,
                   error, output_file>>

\* Line 31, QrCode::new(url)? fails (the payload exceeds the capacity).
EncodeError ==
    /\ pc = "encode"
    /\ Fail("encode")
    /\ UNCHANGED <<detail, qr_size, qr_width, code, module_size, actual_qr_size,
                   qr_image, icon_size, icon_file, icon, x_offset, y_offset,
                   background_size, bg_x, bg_y, bg_image, final_image, output_file>>

\* Lines 34-68.
Rasterize ==
    /\ pc = "rasterize"
    /\ module_size' = ModuleSize(qr_size, qr_width)
    /\ actual_qr_size' = ActualQrSize(module_size', qr_width)
    /\ qr_image' = [width |-> actual_qr_size', height |-> actual_qr_size',
                    px |-> IF detail = "pixels"
                           THEN DrawModules(code, qr_width, module_size', actual_qr_size')
                           ELSE <<>>]
    /\ icon_size' = IconSize(actual_qr_size')
    /\ pc' = "load_icon"
    /\ UNCHANGED <<detail, qr_size, qr_width, code, icon_file, icon, x_offset,
                   y_offset, background_size, bg_x, bg_y, bg_image, final_image,
                   result, error, output_file>>

\* Mutant: the missing file is not reported and the run goes on to save.
IconNotFoundIgnored ==
    /\ pc = "load_icon"
    /\ icon_file.state = "missing"
    /\ pc' = "save"
    /\ UNCHANGED <<detail, qr_size, qr_width, code, module_size, actual_qr_size,
                   qr_image, icon_size, icon_file, icon, x_offset, y_offset,
                   background_size, bg_x, bg_y, bg_image, final_image, result,
                   error, output_file>>

\* Lines 82-84.
IconNotFound ==
    /\ pc = "load_icon"
    /\ icon_file.state = "missing"
    /\ Fail("icon_not_found")
    /\ UNCHANGED <<detail, qr_size, qr_width, code, module_size, actual_qr_size,
                   qr_image, icon_size, icon_file, icon, x_offset, y_offset,
                   background_size, bg_x, bg_y, bg_image, final_image, output_file>>

\* Lines 87-88.
IconDecodeError ==
    /\ pc = "load_icon"
    /\ icon_file.state = "undecodable"
    /\ Fail("icon_decode")
    /\ UNCHANGED <<detail, qr_size, qr_width, code, module_size, actual_qr_size,
                   qr_image, icon_size, icon_file, icon, x_offset, y_offset,
                   background_size, bg_x, bg_y, bg_image, final_image, output_file>>

\* Lines 87-93.
LoadAndResizeIcon ==
    /\ pc = "load_icon"
    /\ icon_file.state = "ok"
    /\ LET dims == ResizeDimensions(icon_file.width, icon_file.height,
                                    icon_size, icon_size)
       IN  icon' = MakeIcon(icon_file.kind, dims[1], dims[2], detail)
    /\ pc' = "overlay"
    /\ UNCHANGED <<detail, qr_size, qr_width, code, module_size, actual_qr_size,
                   qr_image, icon_size, icon_file, x_offset, y_offset,
                   background_size, bg_x, bg_y, bg_image, final_image, result,
                   error, output_file>>

IconTooLarge == icon.width > qr_image.width \/ icon.height > qr_image.height

\* Lines 96-129; the function has no Err return.
OverlayIconOnQr ==
    /\ pc = "overlay"
    /\ x_offset' = CenterOffset(qr_image.width, icon.width)
    /\ y_offset' = CenterOffset(qr_image.height, icon.height)
    /\ background_size' = BackgroundSize(icon.width)
    /\ bg_x' = BgAnchor(x_offset')
    /\ bg_y' = BgAnchor(y_offset')
    /\ bg_image' = IF detail = "pixels"
                   THEN PaintBackground(qr_image, bg_x', bg_y', background_size')
                   ELSE qr_image
    /\ final_image' = IF detail = "pixels"
                      THEN Overlay(bg_image', icon, x_offset', y_offset')
                      ELSE bg_image'
    /\ pc' = "save"
    /\ UNCHANGED <<detail, qr_size, qr_width, code, module_size, actual_qr_size,
                   qr_image, icon_size, icon_file, icon, result, error,
                   output_file>>

\* Lines 103-104 in a build with overflow checks: the subtraction panics.
OverlayPanic ==
    /\ pc = "overlay"
    /\ IconTooLarge
    /\ result' = "panic"
    /\ pc' = "done"
    /\ UNCHANGED <<detail, qr_size, qr_width, code, module_size, actual_qr_size,
                   qr_image, icon_size, icon_file, icon, x_offset, y_offset,
                   background_size, bg_x, bg_y, bg_image, final_image, error,
                   output_file>>

\* Lines 75-77, final_image.save(output_path)? succeeds.
Save ==
    /\ pc = "save"
    /\ output_file' = "written"
    /\ result' = "Ok"
    /\ pc' = "done"
    /\ UNCHANGED <<detail, qr_size, qr_width, code, module_size, actual_qr_size,
                   qr_image, icon_size, icon_file, icon, x_offset, y_offset,
                   background_size, bg_x, bg_y, bg_image, final_image, error>>

\* Line 75, final_image.save(output_path)? fails: before the file is
\* created, or while it is written.
SaveError ==
    /\ pc = "save"
    /\ output_file' \in {"absent", "partial"}
    /\ Fail("write")
    /\ UNCHANGED <<detail, qr_size, qr_width, code, module_size, actual_qr_size,
                   qr_image, icon_size, icon_file, icon, x_offset, y_offset,
                   background_size, bg_x, bg_y, bg_image, final_image>>

----------------------------------------------------------------------------
(* Specifications. *)

IconFiles(sides) ==
    {[state |-> "missing", width |-> 0, height |-> 0, kind |-> "none"],
     [state |-> "undecodable", width |-> 0, height |-> 0, kind |-> "none"]}
    \cup [state : {"ok"}, width : sides, height : sides, kind : {"coded", "clear"}]

\* A canvas as the rasterizer leaves it: black and white only.
CanvasPixels(pattern, w, h) ==
    [p \in Coords(w, h) |->
        IF pattern = "dark" \/ (p[1] + p[2]) % 2 = 0 THEN Black ELSE White]

Idle ==
    /\ module_size = 0 /\ actual_qr_size = 0
    /\ x_offset = 0 /\ y_offset = 0 /\ background_size = 0 /\ bg_x = 0 /\ bg_y = 0
    /\ bg_image = NoImage /\ final_image = NoImage
    /\ result = "running" /\ error = "none" /\ output_file = "absent"

InitRaster ==
    /\ pc = "rasterize"
    /\ detail = "pixels"
    /\ qr_size \in 1 .. MaxTarget
    /\ qr_width \in 1 .. MaxWidth
    /\ code \in [Coords(qr_width, qr_width) -> BOOLEAN]
    /\ qr_image = NoImage
    /\ icon_size = 0
    /\ icon_file = NoFile
    /\ icon = NoIcon
    /\ Idle

NextRaster == Rasterize

SpecRaster == InitRaster /\ [][NextRaster]_vars

InitIcon ==
    /\ pc = "load_icon"
    /\ detail = "pixels"
    /\ icon_size \in 1 .. MaxIconSize
    /\ icon_file \in IconFiles(1 .. MaxSource)
    /\ qr_size = 0 /\ qr_width = 0 /\ code = <<>>
    /\ qr_image = NoImage
    /\ icon = NoIcon
    /\ Idle

NextIcon == IconNotFound \/ IconDecodeError \/ LoadAndResizeIcon

SpecIcon == InitIcon /\ [][NextIcon]_vars

InitOverlay ==
    /\ pc = "overlay"
    /\ detail = "pixels"
    /\ \E w \in 1 .. MaxCanvas, h \in 1 .. MaxCanvas, pattern \in {"dark", "checker"} :
          qr_image = [width |-> w, height |-> h, px |-> CanvasPixels(pattern, w, h)]
    /\ \E w \in 1 .. MaxIconWidth, h \in 1 .. MaxIconHeight,
          kind \in {"coded", "black", "clear"} :
          icon = MakeIcon(kind, w, h, "pixels")
    /\ qr_size = 0 /\ qr_width = 0 /\ code = <<>>
    /\ icon_size = 0
    /\ icon_file = NoFile
    /\ Idle

NextOverlay == OverlayIconOnQr \/ OverlayPanic

SpecOverlay == InitOverlay /\ [][NextOverlay]_vars

\* The run of generate_qr_with_icon with the program's own numbers. The
\* OverlayPanic step is left out: IconFitsCanvas below shows its guard is
\* never true here.
InitPipeline ==
    /\ pc = "encode"
    /\ detail = "dims"
    /\ qr_size = QR_SIZE
    /\ qr_width = 0 /\ code = <<>>
    /\ qr_image = NoImage
    /\ icon_size = 0
    /\ icon_file \in IconFiles({1, 3, 100, 2000})
    /\ icon = NoIcon
    /\ Idle

NextPipeline ==
    \/ Encode
    \/ EncodeError
    \/ Rasterize
    \/ IconNotFound
    \/ IconDecodeError
    \/ LoadAndResizeIcon
    \/ OverlayIconOnQr
    \/ Save
    \/ SaveError

SpecPipeline == InitPipeline /\ [][NextPipeline]_vars

----------------------------------------------------------------------------
(* Properties. *)

Cells == Coords(qr_width, qr_width)

\* The pixels of the block of cell c at module size m.
Block(c, m) ==
    ((c[1] * m) .. (c[1] * m + m - 1)) \X ((c[2] * m) .. (c[2] * m + m - 1))

\* C1 - Module alignment: with qr_size >= qr_width >= 1 the rasterized canvas
\* is a square whose side is floor(qr_size / qr_width) * qr_width, a multiple
\* of qr_width not above qr_size; every pixel of a cell's block is black if
\* the cell is dark and white if it is light; the blocks of distinct cells
\* are disjoint and together they are the whole canvas.
C1_ModuleAlignment ==
    (pc = "load_icon" /\ qr_size >= qr_width) =>
        LET m == qr_size \div qr_width
            S == qr_image.width
        IN  /\ qr_image.height = S
            /\ S = m * qr_width
            /\ S % qr_width = 0 /\ S >= qr_width /\ S <= qr_size
            /\ DOMAIN qr_image.px = Coords(S, S)
            /\ \A c \in Cells : \A p \in Block(c, m) :
                  /\ p \in DOMAIN qr_image.px
                  /\ qr_image.px[p] = IF code[c] THEN Black ELSE White
            /\ \A c \in Cells, d \in Cells :
                  c # d => Block(c, m) \cap Block(d, m) = {}
            /\ UNION {Block(c, m) : c \in Cells} = Coords(S, S)

\* A 2 x 2 matrix with dark and light cells rasterized at target 5: module
\* size 2, side 4, one pixel of the target left over.
C1_Witness ==
    /\ pc = "load_icon"
    /\ qr_width = 2 /\ qr_size = 5
    /\ module_size = 2 /\ qr_image.width = 4
    /\ \E c \in Cells, d \in Cells : code[c] /\ ~code[d]

C7_IconBound ==
    /\ ResizeDimensions(100, 100, 50, 50) = <<50, 50>>
    /\ pc = "overlay" =>
          /\ icon.width >= 1 /\ icon.height >= 1
          /\ icon.width <= icon_size /\ icon.height <= icon_size
          /\ (icon_file.width = icon_file.height /\ icon_file.width > icon_size) =>
                (icon.width = icon_size /\ icon.height = icon_size)

\* A 6 x 4 source fitted into 5 x 5 comes out 5 x 3.
C7_Witness ==
    /\ pc = "overlay"
    /\ icon_file.width = 6 /\ icon_file.height = 4 /\ icon_size = 5
    /\ icon.width = 5 /\ icon.height = 3

\* The icon's placed bounding box.
IconBox ==
    (x_offset .. x_offset + icon.width - 1) \X (y_offset .. y_offset + icon.height - 1)

Canvas == Coords(qr_image.width, qr_image.height)

\* The square the compositor paints: side icon.width + 2 * 5, anchored 5
\* pixels before the icon's corner (at 0 when that is negative), cut to the
\* canvas.
Patch ==
    LET ax == Max(x_offset - 5, 0)
        ay == Max(y_offset - 5, 0)
        side == icon.width + 10
    IN  ((ax .. ax + side - 1) \X (ay .. ay + side - 1)) \cap Canvas

Composited == pc = "save" /\ ~IconTooLarge

\* C2 - Safe-area coverage: for an icon that fits the canvas, every
\* coordinate of the icon's bounding box is inside the region painted white
\* before the overlay.
C2_SafeAreaCoverage ==
    Composited =>
        \A p \in IconBox :
            /\ p \in Canvas
            /\ p[1] - bg_x \in 0 .. background_size - 1
            /\ p[2] - bg_y \in 0 .. background_size - 1
            /\ bg_image.px[p] = White

\* C3 - an icon wider or higher than the canvas makes the compositor return
\* an IconTooLarge error, with no offsets computed, nothing painted and no
\* image produced.
C3_IconTooLarge ==
    (pc # "overlay" /\ IconTooLarge) =>
        /\ result = "Err"
        /\ error = "icon_too_large"
        /\ bg_image = NoImage
        /\ final_image = NoImage

\* C5 - Centering exactness: for an icon that fits, each offset is the floor
\* of half the free space, the right (bottom) gap exceeds the left (top) gap
\* by 0 or 1, and the icon's bounding box is inside the canvas.
C5_Centering ==
    Composited =>
        LET free_x == qr_image.width - icon.width
            free_y == qr_image.height - icon.height
        IN  /\ 2 * x_offset <= free_x /\ free_x <= 2 * x_offset + 1
            /\ 2 * y_offset <= free_y /\ free_y <= 2 * y_offset + 1
            /\ (free_x - x_offset) - x_offset \in {0, 1}
            /\ (free_y - y_offset) - y_offset \in {0, 1}
            /\ x_offset >= 0 /\ x_offset + icon.width <= qr_image.width
            /\ y_offset >= 0 /\ y_offset + icon.height <= qr_image.height
            /\ IconBox \subseteq Canvas

\* A 1 x 7 icon on a 6 x 17 canvas: odd free width 5, even free height 10.
C5_Witness ==
    /\ pc = "save"
    /\ qr_image.width = 6 /\ qr_image.height = 17
    /\ icon.width = 1 /\ icon.height = 7
    /\ x_offset = 2 /\ y_offset = 5

C9_MarginRing ==
    Composited =>
        \A p \in Canvas :
            ( /\ p[1] \in x_offset - 5 .. x_offset + icon.width + 4
              /\ p[2] \in y_offset - 5 .. y_offset + icon.height + 4
              /\ p \notin IconBox )
            => final_image.px[p] = White

\* C6 - No output on failure: the output file exists only once the matrix
\* was encoded and rasterized, the icon prepared and the two composited; a
\* run whose payload cannot be encoded or whose icon is missing or
\* undecodable ends with an error, never reaches the overlay or the save, and
\* leaves no output file.
C6_NoOutputOnFailure ==
    /\ output_file # "absent" =>
          /\ pc = "done"
          /\ error \in {"none", "write"}
          /\ qr_width >= 1 /\ qr_image # NoImage
          /\ icon_file.state = "ok" /\ icon # NoIcon
          /\ final_image # NoImage
    /\ output_file = "written" <=> result = "Ok"
    /\ error \in {"encode", "icon_not_found", "icon_decode"} =>
          /\ result = "Err" /\ pc = "done"
          /\ final_image = NoImage
          /\ output_file = "absent"
    /\ (icon_file.state # "ok" /\ pc \notin {"encode", "rasterize", "load_icon"}) =>
          /\ pc = "done" /\ result = "Err"
          /\ error \in {"encode", "icon_not_found", "icon_decode"}

\* The icon file is missing: the run stops after rasterization, with the
\* error and no output.
C6_Witness ==
    /\ pc = "done" /\ result = "Err" /\ error = "icon_not_found"
    /\ qr_image.width > 0
    /\ output_file = "absent"

\* C10 - with target 400 and a matrix side in 21..177: module size >= 2,
\* 400 - side < actual size <= 400, icon bound >= 1, the prepared icon no
\* wider or higher than the canvas, the offsets are the unwrapped halves of
\* the free space, and no step ends in a panic or an error about dimensions.
C10_PipelineValues ==
    /\ pc \notin {"encode", "rasterize"} /\ error # "encode" =>
          /\ qr_width \in 21 .. 177
          /\ module_size >= 2
          /\ 400 - qr_width < actual_qr_size /\ actual_qr_size <= 400
          /\ qr_image.width = actual_qr_size /\ qr_image.height = actual_qr_size
          /\ icon_size >= 1 /\ 5 * icon_size <= actual_qr_size
    /\ icon # NoIcon =>
          /\ icon.width <= icon_size /\ icon.height <= icon_size
          /\ icon.width <= qr_image.width /\ icon.height <= qr_image.height
          /\ ~IconTooLarge
    /\ final_image # NoImage =>
          /\ 2 * x_offset + icon.width \in {qr_image.width - 1, qr_image.width}
          /\ 2 * y_offset + icon.height \in {qr_image.height - 1, qr_image.height}
    /\ result # "panic"
    /\ error \notin {"invalid_dimension", "icon_too_large"}

\* The largest matrix, side 177, with a 2000 x 100 source: module size 2,
\* canvas 354, icon bound 70, icon 70 x 4 (3.5 rounded up) at (142, 175).
C10_Witness ==
    /\ pc = "save"
    /\ qr_width = 177 /\ module_size = 2 /\ actual_qr_size = 354
    /\ icon_size = 70
    /\ icon_file.width = 2000 /\ icon_file.height = 100
    /\ icon.width = 70 /\ icon.height = 4
    /\ x_offset = 142 /\ y_offset = 175

====
